---- MODULE Spec2Model ----
(***************************************************************************)
(* Pushgateway Upsetter: the polling loop of main, the GroupState liveness *)
(* detector of package tracking and the MetricsGroup helpers of package    *)
(* pushgateway.                                                            *)
(*                                                                         *)
(* Time is counted in whole units.  A time.Time is an integer, 0 is the    *)
(* zero Time (IsZero); a time.Duration is an integer number of units.      *)
(* A Go string is the sequence of its tokens: a label name is one token,   *)
(* "/" is one token, and no token is a prefix of another, so two token     *)
(* sequences are equal exactly when the strings they spell are equal.      *)
(***************************************************************************)
EXTENDS Integers, Sequences, FiniteSets, TLC

VARIABLES
    gateway,         \* which Pushgateway main talks to: the name of the set of groups it may hold
    horizon,         \* the clock value up to which the run is followed
    ttlGiven,        \* main: was the -ttl flag passed on the command line
    groupTTL,        \* main: groupTTL
    now,             \* the wall clock read by time.Now()
    pc,              \* main: "tick" blocked on time.Tick, "query" calling QueryMetrics, "range" in the loops
    err,             \* main: did the last QueryMetrics return an error
    states,          \* main: states, key -> GroupState
    nGroups,         \* main: len(groups) of the snapshot being ranged over
    idx,             \* main: number of items of groups already ranged over
    receivedKeys,    \* main: receivedKeys
    expirationTime,  \* main: expirationTime
    groups,          \* main: the items of groups ranged over so far in this tick
    crashed,         \* the process ended by a panic
    before,          \* history: states when the current tick began
    started,         \* history: the clock when the current tick set expirationTime
    actions,         \* history: the Upset/Delete calls of the current tick, in order
    step,            \* history: what the last iteration of the range loop looked at
    unsent,          \* history: the tracked keys whose latest Upset request failed
    risen,           \* history: the tracked keys that Update has seen a later timestamp for
    cycle            \* history: the keys the last successful tick expired or created again

vars == <<gateway, horizon, ttlGiven, groupTTL, now, pc, err, states, nGroups, idx, receivedKeys,
          expirationTime, groups, crashed, before, started, actions, step, unsent, risen, cycle>>

----------------------------------------------------------------------------
(* Bounds of the model. *)

MaxGroups == 2
MaxStamp == 3
MaxNow == 4
Skew == 1
FlagTTL == 1
ScenarioEnd == 7

(* The default of the -ttl flag ("24h"), in units of the model. *)
defaultTTL == 2

----------------------------------------------------------------------------
(* package time *)

ZeroTime == 0

IsZero(t) == t = ZeroTime

After(t, u) == t > u

Before(t, u) == t < u

Sub(t, u) == t - u

Add(t, d) == t + d

----------------------------------------------------------------------------
(* package tracking *)

NewGroupState(timestamp) ==
    [up |-> FALSE, timestamp |-> timestamp, timeout |-> 0]

IsUpWithoutTimeout(gs, clock) ==
    IF IsZero(gs.timestamp)
    THEN FALSE
    ELSE LET expiration == Add(gs.timestamp, gs.timeout)
         IN  Before(clock, expiration)

IsUpAtExpiration(gs, clock) ==
    IF IsZero(gs.timestamp) \/ gs.timeout = 0
    THEN FALSE
    ELSE LET expiration == Add(gs.timestamp, gs.timeout)
         IN  ~After(clock, expiration)

IsUp(gs, clock) ==
    IF IsZero(gs.timestamp) \/ gs.timeout = 0
    THEN FALSE
    ELSE LET expiration == Add(gs.timestamp, gs.timeout)
         IN  Before(clock, expiration)

UpdateFromZero(gs, timestamp, clock) ==
    LET wasUp == gs.up
        timeout == IF After(timestamp, gs.timestamp)
                   THEN LET delta == Sub(timestamp, gs.timestamp)
                        IN  delta + (delta \div 2)
                   ELSE gs.timeout
        stamped == [gs EXCEPT !.timeout = timeout, !.timestamp = timestamp]
        up == IsUp(stamped, clock)
    IN  [gs |-> [stamped EXCEPT !.up = up], changed |-> (wasUp # up)]

UpdateReturnsUp(gs, timestamp, clock) ==
    LET timeout == IF After(timestamp, gs.timestamp) /\ ~IsZero(gs.timestamp)
                   THEN LET delta == Sub(timestamp, gs.timestamp)
                        IN  delta + (delta \div 2)
                   ELSE gs.timeout
        stamped == [gs EXCEPT !.timeout = timeout, !.timestamp = timestamp]
        up == IsUp(stamped, clock)
    IN  [gs |-> [stamped EXCEPT !.up = up], changed |-> up]

UpdateOnNewStampOnly(gs, timestamp, clock) ==
    LET wasUp == gs.up
        timeout == IF After(timestamp, gs.timestamp) /\ ~IsZero(gs.timestamp)
                   THEN LET delta == Sub(timestamp, gs.timestamp)
                        IN  delta + (delta \div 2)
                   ELSE gs.timeout
        stamped == [gs EXCEPT !.timeout = timeout, !.timestamp = timestamp]
        up == IF timestamp = gs.timestamp THEN wasUp ELSE IsUp(stamped, clock)
    IN  [gs |-> [stamped EXCEPT !.up = up], changed |-> (wasUp # up)]

(* Update changes gs in place and returns a boolean: the pair of both. *)
Update(gs, timestamp, clock) ==
    LET wasUp == gs.up
        timeout == IF After(timestamp, gs.timestamp) /\ ~IsZero(gs.timestamp)
                   THEN LET delta == Sub(timestamp, gs.timestamp)
                        IN  delta + (delta \div 2)
                   ELSE gs.timeout
        stamped == [gs EXCEPT !.timeout = timeout, !.timestamp = timestamp]
        up == IsUp(stamped, clock)
    IN  [gs |-> [stamped EXCEPT !.up = up], changed |-> (wasUp # up)]

----------------------------------------------------------------------------
(* package pushgateway *)

(* The label names of the model in the order of Go's string comparison. *)
NameOrder == <<"extra", "instance", "job", "other">>

NameRank(name) == CHOOSE i \in 1..Len(NameOrder) : NameOrder[i] = name

(* slices.Sort of a set of names *)
RECURSIVE SortNames(_)
SortNames(S) ==
    IF S = {} THEN <<>>
    ELSE LET least == CHOOSE n \in S : \A o \in S : NameRank(n) <= NameRank(o)
         IN  <<least>> \o SortNames(S \ {least})

(* strings.Join *)
RECURSIVE Join(_, _)
Join(parts, sep) ==
    IF Len(parts) = 0 THEN <<>>
    ELSE IF Len(parts) = 1 THEN parts[1]
    ELSE parts[1] \o sep \o Join(Tail(parts), sep)

RECURSIVE NameValueParts(_, _)
NameValueParts(names, labels) ==
    IF names = <<>> THEN <<>>
    ELSE <<(<<names[1]>>), labels[names[1]]>> \o NameValueParts(Tail(names), labels)

Panic == <<"panic">>

Key(g) ==
    IF "job" \notin DOMAIN g.Labels THEN Panic
    ELSE LET job == g.Labels["job"]
             names == SortNames(DOMAIN g.Labels \ {"job"})
             parts == <<(<<"job">>), job>> \o NameValueParts(names, g.Labels)
         IN  Join(parts, <<"/">>)

(* The orders in which "for name := range g.Labels" can yield the names. *)
RangeOrders(labels) ==
    LET n == Cardinality(DOMAIN labels)
    IN  { o \in [1..n -> DOMAIN labels] : \A name \in DOMAIN labels : \E i \in 1..n : o[i] = name }

InsertName(sorted, name) ==
    LET k == Cardinality({ i \in 1..Len(sorted) : NameRank(sorted[i]) <= NameRank(name) })
    IN  SubSeq(sorted, 1, k) \o <<name>> \o SubSeq(sorted, k + 1, Len(sorted))

(* slices.Sort of a slice of names *)
RECURSIVE SliceSort(_)
SliceSort(names) ==
    IF names = <<>> THEN <<>> ELSE InsertName(SliceSort(Tail(names)), names[1])

(* Key, with the order in which the map is ranged over made explicit. *)
KeyRanged(g, order) ==
    IF "job" \notin DOMAIN g.Labels THEN Panic
    ELSE LET job == g.Labels["job"]
             names == SliceSort(SelectSeq(order, LAMBDA name : name # "job"))
             parts == <<(<<"job">>), job>> \o NameValueParts(names, g.Labels)
         IN  Join(parts, <<"/">>)

LabelNamesMatchAnyCount(g, names) ==
    \A i \in 1..Len(names) : names[i] \in DOMAIN g.Labels

LabelNamesMatch(g, names) ==
    /\ \A i \in 1..Len(names) : names[i] \in DOMAIN g.Labels
    /\ Cardinality(DOMAIN g.Labels) = Len(names)

FilterFirstNameOnly(m, names) ==
    [name \in {n \in DOMAIN m : names[1] # n} |-> m[name]]

Filter(m, names) ==
    [name \in {n \in DOMAIN m : \A i \in 1..Len(names) : names[i] # n} |-> m[name]]

MaxTimestamp(m) ==
    IF DOMAIN m = {} THEN ZeroTime
    ELSE CHOOSE t \in {m[n] : n \in DOMAIN m} : \A n \in DOMAIN m : m[n] <= t

MinTimestamp(m) ==
    IF DOMAIN m = {} THEN ZeroTime
    ELSE CHOOSE t \in {m[n] : n \in DOMAIN m} : \A n \in DOMAIN m : t <= m[n]

----------------------------------------------------------------------------
(* The snapshots QueryMetrics can return. *)

ValX == <<"x">>
ValY == <<"y">>
ValXY == <<"x", "/", "instance", "/", "y">>
ValYY == <<"y", "/", "instance", "/", "y">>

LabelSets ==
    { ("job" :> ValX) @@ ("instance" :> ValY),
      ("job" :> ValXY) @@ ("instance" :> ValY),
      ("job" :> ValX) @@ ("instance" :> ValYY),
      ("job" :> ValX) @@ ("instance" :> ValY) @@ ("extra" :> ValY),
      ("job" :> ValX),
      ("job" :> ValX) @@ ("other" :> ValY) }

Stamps == 1..MaxStamp

(* What the metrics of a group can be: nothing; the push time alone; one     *)
(* metric of the job, pushed at any time, alone or with a later push time.   *)
MetricSets ==
    { <<>>, ("push_time_seconds" :> MaxStamp) }
    \cup { ("baz" :> t) : t \in Stamps }
    \cup { ("baz" :> 1) @@ ("push_time_seconds" :> MaxStamp) }

Group(l, m) == [Labels |-> l, Metrics |-> m]

(* One group with every kind of metrics, two more groups whose labels spell  *)
(* one and the same key, and the groups of another label shape.              *)
GroupUniverse ==
    { Group(("job" :> ValX) @@ ("instance" :> ValY), m) : m \in MetricSets }
    \cup { Group(("job" :> ValXY) @@ ("instance" :> ValY), ("baz" :> 1)),
           Group(("job" :> ValX) @@ ("instance" :> ValYY), ("baz" :> MaxStamp)) }
    \cup { Group(l, ("baz" :> 1)) :
              l \in { k \in LabelSets : DOMAIN k # {"job", "instance"} } }

(* The group of the scenario: pushed at stamp 1 and at stamp 3. *)
ScenarioGroups ==
    { Group(("job" :> ValX) @@ ("instance" :> ValY), ("baz" :> t)) : t \in {1, 3} }
    \cup { Group(("job" :> ValX), ("baz" :> 1)) }

(* Groups that were pushed once, at stamp 1, and never again: one group and  *)
(* the two groups whose labels spell one and the same key.                   *)
StaleGroups ==
    { Group(l, ("baz" :> 1)) : l \in { k \in LabelSets : DOMAIN k = {"job", "instance"} } }

(* The metrics of the group with every combination of metrics. *)
MetricNames == {"up", "push_time_seconds", "push_failure_time_seconds", "baz", "qux"}

AllMetricSets == UNION { [names -> Stamps] : names \in SUBSET MetricNames }

MetricsGroups ==
    { Group(("job" :> ValX) @@ ("instance" :> ValY), m) : m \in AllMetricSets }
    \cup { Group(("job" :> ValX), ("baz" :> 1)) }

(* The groups the Pushgateway of the run may hold. *)
Held ==
    CASE gateway = "shapes" -> GroupUniverse
      [] gateway = "scenario" -> ScenarioGroups
      [] gateway = "metrics" -> MetricsGroups
      [] gateway = "stale" -> StaleGroups

----------------------------------------------------------------------------
(* main *)

NoStep ==
    [ok |-> FALSE, old |-> NewGroupState(ZeroTime), at |-> 0, then |-> 0,
     updated |-> FALSE, changed |-> FALSE, sent |-> 0]

Put(m, key, gs) == [k \in DOMAIN m \cup {key} |-> IF k = key THEN gs ELSE m[k]]

Drop(m, key) == [k \in DOMAIN m \ {key} |-> m[k]]

Contains(s, x) == \E i \in 1..Len(s) : s[i] = x

Init ==
    /\ gateway = "shapes"
    /\ horizon = MaxNow
    /\ ttlGiven \in BOOLEAN
    /\ groupTTL = IF ttlGiven THEN FlagTTL ELSE defaultTTL
    /\ now = 1
    /\ pc = "tick"
    /\ err = FALSE
    /\ states = <<>>
    /\ nGroups = 0
    /\ idx = 0
    /\ receivedKeys = <<>>
    /\ expirationTime = 0
    /\ groups = <<>>
    /\ crashed = FALSE
    /\ before = <<>>
    /\ started = 0
    /\ actions = <<>>
    /\ step = NoStep
    /\ unsent = {}
    /\ risen = {}
    /\ cycle = <<>>

(* "for _ = range time.Tick(refreshPeriod)": the ticker fires, one refresh   *)
(* period after the last time, and a new tick begins.                        *)
Wait ==
    /\ ~crashed
    /\ pc = "tick"
    /\ now < horizon
    /\ now' = now + 1
    /\ pc' = "query"
    /\ err' = FALSE
    /\ nGroups' = 0
    /\ idx' = 0
    /\ receivedKeys' = <<>>
    /\ expirationTime' = 0
    /\ groups' = <<>>
    /\ before' = states
    /\ started' = 0
    /\ actions' = <<>>
    /\ step' = NoStep
    /\ UNCHANGED <<gateway, horizon, ttlGiven, groupTTL, states, crashed, unsent, risen, cycle>>

(* Time passes while the groups are ranged over. *)
Elapse ==
    /\ ~crashed
    /\ pc = "range"
    /\ now < horizon
    /\ now' = now + 1
    /\ UNCHANGED <<gateway, horizon, ttlGiven, groupTTL, pc, err, states, nGroups, idx, receivedKeys,
                   expirationTime, groups, crashed, before, started, actions, step, unsent, risen, cycle>>

QueryFailedForgetsStates ==
    /\ ~crashed
    /\ pc = "query"
    /\ err' = TRUE
    /\ pc' = "tick"
    /\ states' = <<>>
    /\ UNCHANGED <<gateway, horizon, ttlGiven, groupTTL, now, nGroups, idx, receivedKeys,
                   expirationTime, groups, crashed, before, started, actions, step, unsent, risen, cycle>>

(* QueryMetrics returns an error: the tick is skipped. *)
QueryFailed ==
    /\ ~crashed
    /\ pc = "query"
    /\ err' = TRUE
    /\ pc' = "tick"
    /\ UNCHANGED <<gateway, horizon, ttlGiven, groupTTL, now, states, nGroups, idx, receivedKeys,
                   expirationTime, groups, crashed, before, started, actions, step, unsent, risen, cycle>>

(* QueryMetrics returns the groups; receivedKeys and expirationTime are set. *)
QuerySucceeded ==
    /\ ~crashed
    /\ pc = "query"
    /\ \E n \in 0..MaxGroups : nGroups' = n
    /\ receivedKeys' = <<>>
    /\ expirationTime' = Add(now, -groupTTL)
    /\ started' = now
    /\ pc' = "range"
    /\ UNCHANGED <<gateway, horizon, ttlGiven, groupTTL, now, err, states, idx, groups, crashed, before,
                   actions, step, unsent, risen, cycle>>

(* What one iteration of "for _, group := range groups" leaves behind: the  *)
(* new states and receivedKeys, the calls made on the client, and what the   *)
(* iteration saw.                                                            *)
Outcome(st, rk, calls, panic, ok, old, updated, changed) ==
    [states |-> st, receivedKeys |-> rk, calls |-> calls, panic |-> panic,
     ok |-> ok, old |-> old, updated |-> updated, changed |-> changed]

Call(op, key, up, failed) == [op |-> op, key |-> key, up |-> up, failed |-> failed]

(* "if !ok": a group seen for the first time *)
AddGroup(st, rk, key, timestamp) ==
    Outcome(Put(st, key, NewGroupState(timestamp)), rk, <<>>, FALSE,
            FALSE, NewGroupState(ZeroTime), FALSE, FALSE)

IsExpiredByOldest(group, exp) == Before(MinTimestamp(group.Metrics), exp)

IsExpired(group, exp) == Before(MaxTimestamp(group.Metrics), exp)

(* "if group.Metrics.MaxTimestamp().Before(expirationTime)" *)
ExpireGroup(st, rk, key, old, failed) ==
    Outcome(Drop(st, key), rk, <<Call("Delete", key, FALSE, failed)>>, FALSE,
            TRUE, old, FALSE, FALSE)

UpdateGroupKeepsOnSuccess(st, rk, key, old, timestamp, t, u, failed) ==
    LET r == Update(old, timestamp, t)
    IN  Outcome(IF r.changed /\ failed THEN st ELSE Put(st, key, r.gs), rk,
                IF r.changed
                THEN <<Call("Upset", key, IsUp(r.gs, u), failed)>>
                ELSE <<>>,
                FALSE, TRUE, old, TRUE, r.changed)

UpdateGroupUpsetsAlways(st, rk, key, old, timestamp, t, u, failed) ==
    LET r == Update(old, timestamp, t)
    IN  Outcome(Put(st, key, r.gs), rk,
                <<Call("Upset", key, IsUp(r.gs, u), failed)>>,
                FALSE, TRUE, old, TRUE, r.changed)

(* "if state.Update(timestamp)": t is the clock when Update runs, u the      *)
(* clock when main calls IsUp, failed the outcome of the Upset request.      *)
UpdateGroup(st, rk, key, old, timestamp, t, u, failed) ==
    LET r == Update(old, timestamp, t)
    IN  Outcome(Put(st, key, r.gs), rk,
                IF r.changed
                THEN <<Call("Upset", key, IsUp(r.gs, u), failed)>>
                ELSE <<>>,
                FALSE, TRUE, old, TRUE, r.changed)

IterateExpiresUntracked(st, rk, exp, group, t, u, failed) ==
    IF ~LabelNamesMatch(group, <<"job", "instance">>)
    THEN Outcome(st, rk, <<>>, FALSE, FALSE, NewGroupState(ZeroTime), FALSE, FALSE)
    ELSE
    LET key == Key(group)
        received == Append(rk, key)
        metrics == Filter(group.Metrics,
                          <<"up", "push_time_seconds", "push_failure_time_seconds">>)
        timestamp == MinTimestamp(metrics)
        ok == key \in DOMAIN st
    IN  IF key = Panic
        THEN Outcome(st, rk, <<>>, TRUE, FALSE, NewGroupState(ZeroTime), FALSE, FALSE)
        ELSE IF IsExpired(group, exp)
        THEN ExpireGroup(st, received, key,
                         IF ok THEN st[key] ELSE NewGroupState(ZeroTime), failed)
        ELSE IF ~ok
        THEN AddGroup(st, received, key, timestamp)
        ELSE UpdateGroup(st, received, key, st[key], timestamp, t, u, failed)

Iterate(st, rk, exp, group, t, u, failed) ==
    IF ~LabelNamesMatch(group, <<"job", "instance">>)
    THEN Outcome(st, rk, <<>>, FALSE, FALSE, NewGroupState(ZeroTime), FALSE, FALSE)
    ELSE
    LET key == Key(group)
        received == Append(rk, key)
        metrics == Filter(group.Metrics,
                          <<"up", "push_time_seconds", "push_failure_time_seconds">>)
        timestamp == MinTimestamp(metrics)
        ok == key \in DOMAIN st
    IN  IF key = Panic
        THEN Outcome(st, rk, <<>>, TRUE, FALSE, NewGroupState(ZeroTime), FALSE, FALSE)
        ELSE IF ~ok
        THEN AddGroup(st, received, key, timestamp)
        ELSE IF IsExpired(group, exp)
        THEN ExpireGroup(st, received, key, st[key], failed)
        ELSE UpdateGroup(st, received, key, st[key], timestamp, t, u, failed)

(* The keys whose latest Upset request failed, after the calls of one         *)
(* iteration: a failed Upset adds its key, any other call takes it out.      *)
Unsent(keys, calls) ==
    IF calls = <<>> THEN keys
    ELSE IF calls[1].op = "Upset" /\ calls[1].failed
    THEN keys \cup {calls[1].key}
    ELSE keys \ {calls[1].key}

(* The keys for which Update was called with a timestamp after the stored    *)
(* one, after an iteration over group that found the detector old.           *)
Risen(keys, group, updated, old) ==
    LET metrics == Filter(group.Metrics,
                          <<"up", "push_time_seconds", "push_failure_time_seconds">>)
    IN  IF updated /\ After(MinTimestamp(metrics), old.timestamp)
        THEN keys \cup {Key(group)}
        ELSE keys

(* The Pushgateway keeps one group per label set: the items of one snapshot *)
(* differ in their labels.  groups[idx] is drawn when the loop reaches it.   *)
NextGroups(held, seen) ==
    { g \in held : \A i \in 1..Len(seen) : seen[i].Labels # g.Labels }

RangeGroups ==
    /\ ~crashed
    /\ pc = "range"
    /\ idx < nGroups
    /\ \E group \in NextGroups(Held, groups), d \in 0..Skew, failed \in BOOLEAN :
          /\ now + d <= horizon
          /\ LET r == Iterate(states, receivedKeys, expirationTime, group,
                              now, now + d, failed)
             IN  /\ (r.calls = <<>>) => (~failed /\ d = 0)
                 /\ states' = r.states
                 /\ receivedKeys' = r.receivedKeys
                 /\ actions' = actions \o r.calls
                 /\ crashed' = r.panic
                 /\ step' = [ok |-> r.ok, old |-> r.old, at |-> now, then |-> now + d,
                             updated |-> r.updated, changed |-> r.changed,
                             sent |-> Len(r.calls)]
                 /\ unsent' = Unsent(unsent, r.calls) \cap DOMAIN r.states
                 /\ risen' = Risen(risen, group, r.updated, r.old) \cap DOMAIN r.states
          /\ groups' = Append(groups, group)
          /\ now' = now + d
    /\ idx' = idx + 1
    /\ UNCHANGED <<gateway, horizon, ttlGiven, groupTTL, pc, err, nGroups, expirationTime, before,
                   started, cycle>>

(* What a successful tick did to the keys it leaves behind: "expired" when   *)
(* it called Delete for a key and ends without it, "recreated" when it ends  *)
(* with a key it did not begin with and the successful tick before it had    *)
(* expired.                                                                  *)
Cycle(last, begun, ended, calls) ==
    LET deleted == { calls[i].key : i \in { j \in 1..Len(calls) : calls[j].op = "Delete" } }
        again == { k \in DOMAIN last :
                      last[k] = "expired" /\ k \in DOMAIN ended /\ k \notin DOMAIN begun }
    IN  [k \in (deleted \ DOMAIN ended) \cup again |->
            IF k \in DOMAIN ended THEN "recreated" ELSE "expired"]

RemainingAll(st, rk) == st

(* "for key := range states": drop what the snapshot did not report. *)
Remaining(st, rk) == [k \in {key \in DOMAIN st : Contains(rk, key)} |-> st[k]]

RemoveMissing ==
    /\ ~crashed
    /\ pc = "range"
    /\ idx = nGroups
    /\ states' = Remaining(states, receivedKeys)
    /\ unsent' = unsent \cap DOMAIN Remaining(states, receivedKeys)
    /\ risen' = risen \cap DOMAIN Remaining(states, receivedKeys)
    /\ cycle' = Cycle(cycle, before, Remaining(states, receivedKeys), actions)
    /\ pc' = "tick"
    /\ UNCHANGED <<gateway, horizon, ttlGiven, groupTTL, now, err, nGroups, idx, receivedKeys,
                   expirationTime, groups, crashed, before, started, actions, step>>

Next ==
    \/ Wait
    \/ Elapse
    \/ QueryFailed
    \/ QuerySucceeded
    \/ RangeGroups
    \/ RemoveMissing

Spec == Init /\ [][Next]_vars

----------------------------------------------------------------------------
(* One group followed for a longer time.  The unit is 5 seconds and clock 1  *)
(* is the moment t = 0 of the first poll: the group pushes at t = 0 (stamp   *)
(* 1) and at t = 10s (stamp 3), the run is followed up to t = 30s (clock 7), *)
(* and -ttl is as long as the run, so that nothing expires.                  *)

InitScenario ==
    /\ gateway = "scenario"
    /\ horizon = ScenarioEnd
    /\ ttlGiven = TRUE
    /\ groupTTL = ScenarioEnd
    /\ now = 0
    /\ pc = "tick"
    /\ err = FALSE
    /\ states = <<>>
    /\ nGroups = 0
    /\ idx = 0
    /\ receivedKeys = <<>>
    /\ expirationTime = 0
    /\ groups = <<>>
    /\ crashed = FALSE
    /\ before = <<>>
    /\ started = 0
    /\ actions = <<>>
    /\ step = NoStep
    /\ unsent = {}
    /\ risen = {}
    /\ cycle = <<>>

SpecScenario == InitScenario /\ [][Next]_vars

----------------------------------------------------------------------------
(* One group with every combination of metrics: the three the Pushgateway    *)
(* and the upsetter write themselves and two of the job, each absent or      *)
(* pushed at any stamp; -ttl is short, so that some of them are expired.     *)

InitMetrics ==
    /\ gateway = "metrics"
    /\ horizon = MaxNow - 1
    /\ ttlGiven = TRUE
    /\ groupTTL = FlagTTL
    /\ now = 1
    /\ pc = "tick"
    /\ err = FALSE
    /\ states = <<>>
    /\ nGroups = 0
    /\ idx = 0
    /\ receivedKeys = <<>>
    /\ expirationTime = 0
    /\ groups = <<>>
    /\ crashed = FALSE
    /\ before = <<>>
    /\ started = 0
    /\ actions = <<>>
    /\ step = NoStep
    /\ unsent = {}
    /\ risen = {}
    /\ cycle = <<>>

SpecMetrics == InitMetrics /\ [][Next]_vars

----------------------------------------------------------------------------
(* Groups that stay on the Pushgateway after their last push, followed for   *)
(* as long as the scenario, with a short -ttl: they are stale from clock     *)
(* 1 + FlagTTL on.                                                           *)

InitStale ==
    /\ gateway = "stale"
    /\ horizon = ScenarioEnd
    /\ ttlGiven = TRUE
    /\ groupTTL = FlagTTL
    /\ now = 0
    /\ pc = "tick"
    /\ err = FALSE
    /\ states = <<>>
    /\ nGroups = 0
    /\ idx = 0
    /\ receivedKeys = <<>>
    /\ expirationTime = 0
    /\ groups = <<>>
    /\ crashed = FALSE
    /\ before = <<>>
    /\ started = 0
    /\ actions = <<>>
    /\ step = NoStep
    /\ unsent = {}
    /\ risen = {}
    /\ cycle = <<>>

SpecStale == InitStale /\ [][Next]_vars

----------------------------------------------------------------------------
(* What the properties speak of, read off the snapshot itself.               *)

Shape == {"job", "instance"}

Heartbeats == {"up", "push_time_seconds", "push_failure_time_seconds"}

Least(S) == CHOOSE t \in S : \A o \in S : t <= o

Greatest(S) == CHOOSE t \in S : \A o \in S : o <= t

(* the representative timestamp of a group: the oldest of its own metrics *)
Representative(g) ==
    LET own == { g.Metrics[n] : n \in DOMAIN g.Metrics \ Heartbeats }
    IN  IF own = {} THEN 0 ELSE Least(own)

(* the most recent activity of a group: the newest of all its metrics *)
Freshest(g) ==
    LET all == { g.Metrics[n] : n \in DOMAIN g.Metrics }
    IN  IF all = {} THEN 0 ELSE Greatest(all)

IsWellShaped(g) == DOMAIN g.Labels = Shape

(* the item the last iteration looked at, and the calls it made *)
Ran == idx > 0 /\ Len(groups) = idx

Item == groups[idx]

ItemKey == Key(Item)

ItemCalls == SubSeq(actions, Len(actions) - step.sent + 1, Len(actions))

(* the last iteration looked at a tracked, well-shaped group *)
SawTracked == Ran /\ IsWellShaped(Item) /\ step.ok

Expired(g) == Freshest(g) < started - groupTTL

(* the last iteration called Update on the detector of its group *)
SawUpdate == SawTracked /\ ~Expired(Item)

CallsOn(key) == { i \in 1..Len(actions) : actions[i].key = key }

(* C1: a tracked, well-shaped, non-expired group gets Update called, and the *)
(* iteration makes exactly one call, an Upset for the identity, when Update  *)
(* reports a change, and no call at all when it reports none.                *)
C1_PushIffChanged ==
    SawUpdate =>
        LET r == Update(step.old, Representative(Item), step.at)
        IN  /\ step.updated
            /\ step.changed = r.changed
            /\ r.changed =>
                  /\ Len(ItemCalls) = 1
                  /\ ItemCalls[1].op = "Upset"
                  /\ ItemCalls[1].key = ItemKey
            /\ ~r.changed => ItemCalls = <<>>

C1_Witness ==
    /\ SawUpdate
    /\ step.changed
    /\ step.sent = 1
    /\ actions[Len(actions)].op = "Upset"

(* C2: a well-shaped group whose identity is not tracked when it is ranged   *)
(* over gets a detector (representative timestamp, timeout 0, down), and the *)
(* tick makes no Upset and no Delete call for that identity.                 *)
C2_NewGroupUnannounced ==
    /\ (Ran /\ IsWellShaped(Item) /\ ~step.ok) =>
          /\ ItemKey \in DOMAIN states
          /\ states[ItemKey] = [up |-> FALSE, timestamp |-> Representative(Item),
                                timeout |-> 0]
          /\ step.sent = 0
    /\ \A i \in 1..Len(groups) :
          (IsWellShaped(groups[i]) /\ Key(groups[i]) \notin DOMAIN before)
              => CallsOn(Key(groups[i])) = {}

(* C3: Update sets timeout to delta + delta/2 exactly when the new timestamp *)
(* is after a non-zero last timestamp (1.5 times the gap, rounded down to a  *)
(* whole unit), keeps it otherwise, and always stores the new timestamp.     *)
C3_TimeoutRule ==
    SawUpdate =>
        LET old == step.old
            ts == Representative(Item)
            new == states[ItemKey]
            delta == ts - old.timestamp
        IN  /\ new.timestamp = ts
            /\ (ts > old.timestamp /\ old.timestamp # 0) =>
                  /\ new.timeout = delta + (delta \div 2)
                  /\ 2 * new.timeout <= 3 * delta
                  /\ 3 * delta - 1 <= 2 * new.timeout
            /\ ~(ts > old.timestamp /\ old.timestamp # 0) =>
                  new.timeout = old.timeout

C3_Witness ==
    /\ SawUpdate
    /\ step.old.timestamp # 0
    /\ step.old.timeout = 0
    /\ Representative(Item) - step.old.timestamp = 2
    /\ states[ItemKey].timeout = 3

(* C4: IsUp at clock value c is false when the last timestamp is zero or the *)
(* timeout is zero, and otherwise true exactly when c is strictly before     *)
(* last timestamp + timeout: true at c = last timestamp, false from          *)
(* c = last timestamp + timeout on.                                          *)
VerdictAt(gs, c) ==
    IF gs.timestamp = 0 \/ gs.timeout = 0 THEN FALSE
    ELSE c < gs.timestamp + gs.timeout

C4_VerdictRule ==
    SawUpdate =>
        LET new == states[ItemKey]
        IN  /\ new.up = VerdictAt(new, step.at)
            /\ (step.at = new.timestamp /\ new.timestamp # 0 /\ new.timeout > 0)
                  => new.up
            /\ (step.at >= new.timestamp + new.timeout) => ~new.up
            /\ \A i \in 1..Len(ItemCalls) :
                  ItemCalls[i].op = "Upset"
                      => ItemCalls[i].up = VerdictAt(new, step.then)

C4_Witness ==
    /\ SawUpdate
    /\ states[ItemKey].timeout > 0
    /\ step.at = states[ItemKey].timestamp + states[ItemKey].timeout
    /\ ~states[ItemKey].up
    /\ step.old.up

(* C5: Update returns true exactly when the verdict it stores differs from   *)
(* the verdict stored before the call (false for a detector just created).   *)
C5_ChangedIffFlipped ==
    SawUpdate =>
        /\ step.changed = (step.old.up # states[ItemKey].up)
        /\ (step.old.timeout = 0 /\ states[ItemKey].timeout = 0) =>
              (~step.old.up /\ ~step.changed)

C5_Witness ==
    /\ SawUpdate
    /\ step.old.up
    /\ states[ItemKey].up
    /\ ~step.changed

(* a successful tick has just ended *)
TickDone == pc = "tick" /\ started # 0 /\ ~crashed

SnapshotKeys == { Key(groups[i]) : i \in { j \in 1..Len(groups) : IsWellShaped(groups[j]) } }

(* C6: after a successful tick, an identity tracked before the tick that no  *)
(* well-shaped item of the snapshot carries is no longer tracked, and the    *)
(* tick made no Delete and no Upset call for it.                             *)
C6_VanishedDroppedSilently ==
    TickDone =>
        \A k \in DOMAIN before \ SnapshotKeys :
            /\ k \notin DOMAIN states
            /\ CallsOn(k) = {}

C6_Witness ==
    /\ TickDone
    /\ Len(groups) = 2
    /\ \E k \in DOMAIN before \ SnapshotKeys : before[k].up
    /\ DOMAIN states # {}

(* C7: a tracked, well-shaped group whose newest timestamp is strictly       *)
(* before tick start - retention window is removed without Update; the tick  *)
(* makes exactly one Delete call and no Upset call for its identity; at or   *)
(* after the bound the group is not expired.                                 *)
C7_ExpiredDeletedOnce ==
    /\ (SawTracked /\ Expired(Item)) =>
          /\ ~step.updated
          /\ ItemKey \notin DOMAIN states
          /\ Cardinality(CallsOn(ItemKey)) = 1
          /\ \A i \in CallsOn(ItemKey) : actions[i].op = "Delete"
    /\ (SawTracked /\ ~Expired(Item)) =>
          /\ step.updated
          /\ \A i \in 1..Len(ItemCalls) : ItemCalls[i].op # "Delete"

(* C8 as stated: without a configured retention window no group is ever      *)
(* expired and no Delete call is made.                                       *)
C8_NoFlagNoExpiry ==
    ~ttlGiven =>
        /\ \A i \in 1..Len(actions) : actions[i].op # "Delete"
        /\ SawTracked => step.updated

(* C8 amended: the retention window is always in effect, the default one     *)
(* when none is configured: an iteration makes a Delete call and drops the   *)
(* entry exactly when it looks at a tracked, well-shaped group whose newest  *)
(* timestamp is strictly before tick start - default window.                 *)
C8_DefaultRetention ==
    ~ttlGiven =>
        /\ groupTTL = defaultTTL
        /\ Ran =>
              LET stale == SawTracked /\ Freshest(Item) < started - defaultTTL
              IN  /\ stale = (\E i \in 1..Len(ItemCalls) : ItemCalls[i].op = "Delete")
                  /\ stale => ItemKey \notin DOMAIN states
                  /\ (SawTracked /\ ~stale) => ItemKey \in DOMAIN states

C8_Witness ==
    /\ ~ttlGiven
    /\ SawTracked
    /\ Freshest(Item) > 0
    /\ step.sent = 1
    /\ ItemCalls[1].op = "Delete"

(* C9: after a failed QueryMetrics the detectors are what they were when the *)
(* tick began, no call was made, and main is back waiting for the next tick. *)
C9_FailedQueryChangesNothing ==
    (err /\ pc = "tick") =>
        /\ states = before
        /\ actions = <<>>
        /\ groups = <<>>
        /\ ~crashed
        /\ (now < horizon) => ENABLED Wait

C9_Witness ==
    /\ err
    /\ pc = "tick"
    /\ \E k \in DOMAIN states : states[k].up

(* C10: when the Upset or Delete call of an iteration fails, the change the  *)
(* iteration made stays (the new verdict is stored, the expired entry is     *)
(* gone), and the loop goes on with the remaining items.                     *)
C10_FailedCallKeepsChange ==
    /\ (Ran /\ step.sent = 1 /\ ItemCalls[1].failed) =>
          /\ (ItemCalls[1].op = "Delete") => ItemKey \notin DOMAIN states
          /\ (ItemCalls[1].op = "Upset") =>
                /\ ItemKey \in DOMAIN states
                /\ states[ItemKey] = Update(step.old, Representative(Item), step.at).gs
                /\ states[ItemKey].up # step.old.up
          /\ ~crashed
          /\ (pc = "range" /\ idx < nGroups) => ENABLED RangeGroups
    /\ TickDone => Len(groups) = nGroups

C10_Witness ==
    /\ Ran
    /\ idx = 2
    /\ Len(actions) = 2
    /\ actions[1].failed
    /\ actions[1].op = "Upset"
    /\ actions[2].key # actions[1].key

(* the step makes an Upset call for key *)
PushesTo(key) ==
    /\ Len(actions') = Len(actions) + 1
    /\ actions'[Len(actions')].op = "Upset"
    /\ actions'[Len(actions')].key = key

(* C11: a failed Upset is not retried: no step that leaves the stored        *)
(* verdict of a key whose latest Upset failed as it was makes an Upset call  *)
(* for that key, so what the Pushgateway holds for it stays as it was for as *)
(* long as the verdict does not change.                                      *)
C11_FailedPushNotRetried ==
    [][\A k \in unsent :
          (k \in DOMAIN states /\ k \in DOMAIN states' /\ states'[k].up = states[k].up)
              => ~PushesTo(k)]_vars

(* a later tick calls Update for a key whose Upset failed in an earlier tick *)
(* and sends nothing                                                         *)
C11_Witness ==
    /\ SawUpdate
    /\ ItemKey \in unsent
    /\ CallsOn(ItemKey) = {}
    /\ ~step.changed
    /\ step.sent = 0

(* the step ranges over a group whose label names are not job and instance *)
SkipsItem ==
    /\ pc = "range"
    /\ Len(groups') = Len(groups) + 1
    /\ ~IsWellShaped(groups'[Len(groups')])

(* C12: an item whose label names are not exactly job and instance (fewer,   *)
(* more or other names) is skipped: the step that ranges over it leaves      *)
(* states and receivedKeys as they were, makes no Upset and no Delete call,  *)
(* does not panic, and the loop moves on to the next item.                   *)
C12_MalformedSkipped ==
    [][SkipsItem =>
          /\ states' = states
          /\ receivedKeys' = receivedKeys
          /\ actions' = actions
          /\ ~crashed'
          /\ idx' = idx + 1
          /\ pc' = "range"]_vars

(* a tick that tracks a group has ranged over an item with a third label and *)
(* then over one without the instance label                                  *)
C12_Witness ==
    /\ Ran
    /\ idx = 2
    /\ DOMAIN groups[1].Labels = {"job", "instance", "extra"}
    /\ DOMAIN groups[2].Labels \in {{"job"}, {"job", "other"}}
    /\ DOMAIN states # {}
    /\ states = before
    /\ receivedKeys = <<>>
    /\ actions = <<>>
    /\ ~crashed

(* the groups of the snapshot that have a job label *)
Keyed == { i \in 1..Len(groups) : "job" \in DOMAIN groups[i].Labels }

(* C13: Key depends on the label set only and tells values apart: whatever   *)
(* the order in which the labels are ranged over the key is the same (job,   *)
(* then the other names sorted, joined by "/"), and two label sets with the  *)
(* same names that differ in a value have different keys.                    *)
C13_KeyTellsLabelSetsApart ==
    /\ \A i \in Keyed : \A order \in RangeOrders(groups[i].Labels) :
          KeyRanged(groups[i], order) = Key(groups[i])
    /\ \A i, j \in Keyed :
          (/\ DOMAIN groups[i].Labels = DOMAIN groups[j].Labels
           /\ groups[i].Labels # groups[j].Labels)
              => Key(groups[i]) # Key(groups[j])

(* the detector of the scenario after the push of t = 0 and after the push   *)
(* of t = 10s                                                                *)
AfterFirstPush == [up |-> FALSE, timestamp |-> 1, timeout |-> 0]

AfterSecondPush == [up |-> TRUE, timestamp |-> 3, timeout |-> 3]

(* the iteration at clock c finds the detector as gs and the group's         *)
(* representative timestamp at stamp                                         *)
ScenarioUpdate(gs, c, stamp) ==
    /\ SawUpdate
    /\ step.old = gs
    /\ step.at = c
    /\ Representative(Item) = stamp

ScenarioStart ==
    (Ran /\ IsWellShaped(Item) /\ ~step.ok /\ step.at = 1 /\ Representative(Item) = 1) =>
        /\ states[ItemKey] = AfterFirstPush
        /\ step.sent = 0

ScenarioUp ==
    ScenarioUpdate(AfterFirstPush, 3, 3) =>
        /\ states[ItemKey] = AfterSecondPush
        /\ Len(ItemCalls) = 1
        /\ ItemCalls[1].op = "Upset"
        /\ ItemCalls[1].key = ItemKey
        /\ ItemCalls[1].up

(* C14, as stated: created at t = 0 without a call; at t = 10s the timeout   *)
(* becomes 15s, the verdict turns up and one Upset(up) is made; at t = 30s   *)
(* with the timestamp still 10s the detector is down and the iteration of    *)
(* that tick makes no call.                                                  *)
C14_SilentAtThirty ==
    /\ ScenarioStart
    /\ ScenarioUp
    /\ ScenarioUpdate(AfterSecondPush, 7, 3) =>
          /\ ~IsUp(states[ItemKey], 7)
          /\ step.sent = 0

(* C14, amended: as above, but at t = 30s the Update of that very tick turns *)
(* the stored verdict down and the iteration makes one Upset(down).          *)
C14_DownAtThirty ==
    /\ ScenarioStart
    /\ ScenarioUp
    /\ ScenarioUpdate(AfterSecondPush, 7, 3) =>
          /\ ~IsUp(states[ItemKey], 7)
          /\ states[ItemKey] = [AfterSecondPush EXCEPT !.up = FALSE]
          /\ step.changed
          /\ Len(ItemCalls) = 1
          /\ ItemCalls[1].op = "Upset"
          /\ ItemCalls[1].key = ItemKey
          /\ ~ItemCalls[1].up

C14_Witness ==
    /\ ScenarioUpdate(AfterSecondPush, 7, 3)
    /\ step.sent = 1
    /\ ~states[ItemKey].up

(* the metrics of the item that are the job's own *)
OwnMetrics == DOMAIN Item.Metrics \ Heartbeats

(* C15: the timestamp a detector is created or updated with is the oldest of *)
(* the group's metrics other than up, push_time_seconds and                  *)
(* push_failure_time_seconds, the zero Time when there is none; a tracked    *)
(* group is expired by the newest of all its metrics, the zero Time when it  *)
(* has none; Filter gives the other metrics with their timestamps and the    *)
(* group keeps all of its metrics.                                           *)
C15_OldestOwnNewestOfAll ==
    (Ran /\ IsWellShaped(Item)) =>
        LET filtered == Filter(Item.Metrics,
                               <<"up", "push_time_seconds", "push_failure_time_seconds">>)
        IN  /\ DOMAIN filtered = OwnMetrics
            /\ \A n \in OwnMetrics : filtered[n] = Item.Metrics[n]
            /\ MinTimestamp(filtered) = Representative(Item)
            /\ MaxTimestamp(Item.Metrics) = Freshest(Item)
            /\ ~step.ok => states[ItemKey].timestamp = Representative(Item)
            /\ step.ok =>
                  /\ step.updated = ~(Freshest(Item) < started - groupTTL)
                  /\ step.updated => states[ItemKey].timestamp = Representative(Item)
                  /\ ~step.updated => ItemKey \notin DOMAIN states

(* Update ran on a group whose oldest metric is a heartbeat, whose newest is *)
(* a heartbeat too, and whose own two metrics lie in between                 *)
C15_Witness ==
    /\ SawUpdate
    /\ Cardinality(OwnMetrics) = 2
    /\ MinTimestamp(Item.Metrics) < Representative(Item)
    /\ Representative(Item) < Freshest(Item)
    /\ Item.Metrics["baz"] # Item.Metrics["qux"]
    /\ states[ItemKey].timestamp = Representative(Item)

(* C16: the Upset and Delete calls of one tick are for pairwise different    *)
(* keys: no identity gets more than one call in a tick.                      *)
C16_OneCallPerIdentity ==
    \A i, j \in 1..Len(actions) : (i # j) => actions[i].key # actions[j].key

(* C17: the value of every Upset call is the verdict the Update of the same  *)
(* iteration has just stored, also when the clock moves on between Update    *)
(* and the making of the call.                                               *)
C17_PushCarriesStoredVerdict ==
    (SawUpdate /\ step.sent = 1) =>
        /\ ItemCalls[1].op = "Upset"
        /\ ItemCalls[1].up = states[ItemKey].up
        /\ ItemCalls[1].up = Update(step.old, Representative(Item), step.at).gs.up

(* C18: a detector for which no Update has yet been given a timestamp after  *)
(* the one before it has timeout 0, its stored verdict is down and IsUp is   *)
(* false at every clock; an Update of such a detector reports no change and  *)
(* main makes no call; and a timeout of 0 becomes another only by an Update  *)
(* with a timestamp strictly after the stored one.                           *)
C18_NeverRisenIsDown ==
    /\ \A k \in DOMAIN states \ risen :
          /\ states[k].timeout = 0
          /\ ~states[k].up
          /\ \A c \in 0..horizon : ~IsUp(states[k], c)
    /\ (SawUpdate /\ ItemKey \notin risen) =>
          /\ Representative(Item) <= step.old.timestamp
          /\ ~step.changed
          /\ step.sent = 0
    /\ (SawUpdate /\ step.old.timeout = 0 /\ states[ItemKey].timeout # 0) =>
          Representative(Item) > step.old.timestamp

(* Update ran on a detector that has only seen its timestamp stay or go back *)
C18_Witness ==
    /\ SawUpdate
    /\ ItemKey \notin risen
    /\ Representative(Item) # 0
    /\ Representative(Item) < step.old.timestamp
    /\ states[ItemKey] = [up |-> FALSE, timestamp |-> Representative(Item), timeout |-> 0]

(* Update ran on a detector stored as up, for a group whose representative   *)
(* timestamp is the stored one                                               *)
SawSilentUp ==
    /\ SawUpdate
    /\ step.old.up
    /\ Representative(Item) = step.old.timestamp

(* the clock of that Update has reached timestamp + timeout *)
Due == step.at >= step.old.timestamp + step.old.timeout

(* C19: a tracked group stored as up that stays in the snapshots with an     *)
(* unchanged representative timestamp and is not expired is reported down by *)
(* the first tick whose Update runs at a clock of timestamp + timeout or     *)
(* later: that iteration stores down and makes one Upset(down); an Update    *)
(* that runs earlier keeps the verdict up and main makes no call.            *)
C19_DownAtFirstDueTick ==
    SawSilentUp =>
        /\ Due =>
              /\ ~states[ItemKey].up
              /\ Len(ItemCalls) = 1
              /\ ItemCalls[1].op = "Upset"
              /\ ItemCalls[1].key = ItemKey
              /\ ~ItemCalls[1].up
        /\ ~Due =>
              /\ states[ItemKey] = step.old
              /\ step.sent = 0

(* the tick whose Update runs exactly at timestamp + timeout *)
C19_Witness ==
    /\ SawSilentUp
    /\ step.at = step.old.timestamp + step.old.timeout
    /\ before[ItemKey].up
    /\ step.sent = 1
    /\ ~actions[Len(actions)].up

(* the keys a Delete call was made for in this tick *)
ExpiredKeys == { actions[i].key : i \in { j \in 1..Len(actions) : actions[j].op = "Delete" } }

(* C20: when a successful tick is over, the keys of states are the keys of   *)
(* the well-shaped items of its snapshot less the keys expired in the tick;  *)
(* states holds no key the snapshot did not report.                          *)
C20_TrackedIsSnapshotLessExpired ==
    TickDone =>
        /\ DOMAIN states = SnapshotKeys \ ExpiredKeys
        /\ DOMAIN states \subseteq SnapshotKeys

(* the well-shaped items ranged over so far have pairwise different keys *)
UniqueKeys ==
    \A i, j \in 1..Len(groups) :
        (i # j /\ IsWellShaped(groups[i]) /\ IsWellShaped(groups[j]))
            => Key(groups[i]) # Key(groups[j])

(* the last iteration of a running tick looked at a well-shaped group whose  *)
(* key the successful tick before left as fate                               *)
SawAfter(fate) ==
    /\ pc = "range"
    /\ Ran
    /\ IsWellShaped(Item)
    /\ ItemKey \in DOMAIN cycle
    /\ cycle[ItemKey] = fate

(* C21: in snapshots that hold each key once, a stale group that stays on    *)
(* the Pushgateway goes round: the successful tick after the one that        *)
(* expired it creates its detector again and makes no call, the successful   *)
(* tick after that finds it stale, removes the detector and calls Delete     *)
(* again; no key gets a Delete in two successful ticks in a row.             *)
C21_StaleGroupGoesRound ==
    UniqueKeys =>
        /\ SawAfter("expired") =>
              /\ ~step.ok
              /\ step.sent = 0
              /\ CallsOn(ItemKey) = {}
              /\ states[ItemKey] = [up |-> FALSE, timestamp |-> Representative(Item),
                                    timeout |-> 0]
        /\ SawAfter("recreated") =>
              /\ Expired(Item)
              /\ step.ok
              /\ ~step.updated
              /\ Len(ItemCalls) = 1
              /\ ItemCalls[1].op = "Delete"
              /\ ItemCalls[1].key = ItemKey
              /\ ItemKey \notin DOMAIN states
        /\ (pc = "range") =>
              \A k \in DOMAIN cycle : (cycle[k] = "expired") => k \notin ExpiredKeys

(* the second Delete for a group, two successful ticks after the first *)
C21_Witness ==
    /\ UniqueKeys
    /\ SawAfter("recreated")
    /\ step.sent = 1
    /\ actions[Len(actions)].op = "Delete"
    /\ actions[Len(actions)].key = ItemKey
    /\ ItemKey \notin DOMAIN states

====
